---- MODULE Spec2Model ----
(***************************************************************************)
(* State-machine model of bot.py: a Telegram responder that answers        *)
(* messages containing the keyword "signal" with a generated signal,       *)
(* subject to a time-of-day window, a per-user cooldown and a per-chat     *)
(* burst throttle.                                                         *)
(*                                                                         *)
(* Time is in whole seconds of Africa/Lagos local time (no DST), counted   *)
(* from a local midnight.  Dictionaries are functions whose DOMAIN is the  *)
(* set of keys present.  Texts are tuples of one-character strings.        *)
(***************************************************************************)
EXTENDS Integers, Sequences, FiniteSets, TLC

VARIABLES
    token,                      \* os.environ.get(BOT_TOKEN_ENV): <<>> unset, <<s>> set to s
    pc_main,                    \* position of main()
    handlers,                   \* handlers registered on the application, in order
    now,                        \* the wall clock read by now_lagos()
    ticks,                      \* number of clock advances so far (bounded)
    last_signal_by_user,        \* user_id -> time of last allowed signal
    last_signal_type_by_chat,   \* chat_id -> "BUY" / "SELL"
    chat_signal_timestamps,     \* chat_id -> sequence of recent registration times
    chat_throttle_until,        \* chat_id -> time until which the chat is throttled
    processing,                 \* updates being processed: each with the branch its handler took
    grants,                     \* history: every signal whose handler ran to completion
    trigger_log                 \* history: chat_id -> times of the recent trigger messages

vars == <<token, pc_main, handlers, now, ticks, last_signal_by_user,
          last_signal_type_by_chat, chat_signal_timestamps, chat_throttle_until,
          processing, grants, trigger_log>>

botState == <<last_signal_by_user, last_signal_type_by_chat,
              chat_signal_timestamps, chat_throttle_until>>

(***************************************************************************)
(* Program constants (CONFIG section of bot.py), in seconds and hours.     *)
(***************************************************************************)
OPEN_HOUR == 6
CLOSE_HOUR == 18
COOLDOWN == 300
CHAT_SIGNAL_WINDOW_SEC == 30
CHAT_SIGNAL_LIMIT == 6
CHAT_THROTTLE_DURATION == 60

(***************************************************************************)
(* Bounds of the model.                                                    *)
(***************************************************************************)
NumUsers == 2
MaxTicks == 2
BurstUsers == 8
BurstTicks == 2
TextTicks == 2
SpamTicks == 1
ChatsTicks == 1
OtherChatSignals == 1
ContentTicks == 1

Users == 1..NumUsers
Chats == {1, 2}

\* Clock advances offered to the environment: 299+1 = 300, 29+1 = 30, 59+1 = 60.
Deltas == {1, 299}
BurstDeltas == {1, 29, 59}

\* Start times, in seconds after midnight: 05:59:59, 10:00:00, 11:59:59 and
\* 17:59:59.
StartTimes == {36000, 64799}
BurstStartTimes == {21599, 36000, 64799}
SpamStartTimes == {36000}
SpamDeltas == {29}
BurstChats == {1}
TextStartTimes == {21599, 36000}
TextDeltas == {1, 299}
ChatsStartTimes == {36000}
ChatsDeltas == {1, 59}
ContentStartTimes == {43199}
ContentDeltas == {300}

Tokens == {<<>>, <<"">>, <<"123:ABC">>}

(***************************************************************************)
(* Texts.                                                                  *)
(***************************************************************************)
T_signal      == <<"s","i","g","n","a","l">>
T_Signal_now  == <<"S","I","G","N","A","L"," ","n">>
T_signals     == <<"s","i","g","n","a","l","s">>
T_designal    == <<"d","e","s","i","g","n","a","l","!">>
T_hello       == <<"n","a","g">>
T_empty       == <<>>
T_start       == <<"/","s","t","a","r","t">>
T_start_sig   == <<"/","s","t","a","r","t"," ","s","i","g","n","a","l">>

Texts == {T_signal, T_Signal_now, T_signals, T_designal, T_hello, T_empty,
          T_start, T_start_sig}

Keyword == <<"s","i","g","n","a","l">>

\* str.lower() on the characters used
LowerChar(ch) ==
    CASE ch = "S" -> "s" [] ch = "I" -> "i" [] ch = "G" -> "g"
      [] ch = "N" -> "n" [] ch = "A" -> "a" [] ch = "L" -> "l"
      [] OTHER -> ch

Lower(text) == [i \in 1..Len(text) |-> LowerChar(text[i])]

\* `pat in text`
Contains(text, pat) ==
    \E i \in 1..(Len(text) - Len(pat) + 1) :
        \A j \in 1..Len(pat) : text[i + j - 1] = pat[j]

\* regex \w on the characters used
IsWordChar(ch) == ch \notin {" ", "!", "/"}

\* regex \b at the position before text[i] (i in 1..Len+1)
WordBoundary(text, i) ==
    LET before == i > 1 /\ IsWordChar(text[i - 1])
        after  == i <= Len(text) /\ IsWordChar(text[i])
    IN  before # after

\* re.search(r"(?i)\bsignal\b", text)
RegexSignal(text) ==
    \E i \in 1..(Len(text) - Len(Keyword) + 1) :
        /\ \A j \in 1..Len(Keyword) : LowerChar(text[i + j - 1]) = Keyword[j]
        /\ WordBoundary(text, i)
        /\ WordBoundary(text, i + Len(Keyword))

\* signal_filter = filters.TEXT & filters.Regex(...), on update.effective_message
signal_filter(text) == text # <<>> /\ RegexSignal(text)

\* CommandHandler("start", ...): the text starts with the command /start
IsStartCommand(text) ==
    /\ Len(text) >= Len(T_start)
    /\ SubSeq(text, 1, Len(T_start)) = T_start
    /\ (Len(text) = Len(T_start) \/ text[Len(T_start) + 1] = " ")

(***************************************************************************)
(* Helpers of bot.py.                                                      *)
(***************************************************************************)
\* now.hour, for a time in seconds after a local midnight
Hour(t) == (t \div 3600) % 24

\* (a bug: 18:00 to 18:59 taken as inside the window)
in_signal_window_through_close(t) == OPEN_HOUR <= Hour(t) /\ Hour(t) <= CLOSE_HOUR

in_signal_window(t) == OPEN_HOUR <= Hour(t) /\ Hour(t) < CLOSE_HOUR

\* (a bug: still throttled at the very second the throttle ends)
is_chat_throttled_inclusive(chat_id, t) ==
    chat_id \in DOMAIN chat_throttle_until /\ chat_throttle_until[chat_id] >= t

\* (a bug: the throttle of any chat taken for the throttle of this one)
is_chat_throttled_any_chat(chat_id, t) ==
    \E c \in DOMAIN chat_throttle_until : chat_throttle_until[c] > t

is_chat_throttled(chat_id, t) ==
    chat_id \in DOMAIN chat_throttle_until /\ chat_throttle_until[chat_id] > t

\* (a bug: still on cooldown exactly COOLDOWN after the last signal)
on_cooldown_inclusive(user_id, t) ==
    user_id \in DOMAIN last_signal_by_user /\ t <= last_signal_by_user[user_id] + COOLDOWN

on_cooldown(user_id, t) ==
    user_id \in DOMAIN last_signal_by_user /\ t < last_signal_by_user[user_id] + COOLDOWN

Opposite(type) == IF type = "BUY" THEN "SELL" ELSE "BUY"

\* the values choose_signal_type(chat_id) can return, over all random outcomes
SignalTypeChoices(chat_id) ==
    IF chat_id \notin DOMAIN last_signal_type_by_chat
    THEN {"BUY", "SELL"}
    ELSE {Opposite(last_signal_type_by_chat[chat_id])} \cup {"BUY", "SELL"}

\* random.random(), in hundredths
RandomDraws == 0..99

\* random.uniform(a, b) = a + (b - a) * random.random(), in thousandths
uniform(a, b, u) == a + ((b - a) * u) \div 100

\* round(value, 2) of a value in thousandths, in hundredths; a value halfway
\* falls to either side
Round2(value) ==
    IF value % 10 = 5 THEN {value \div 10, value \div 10 + 1} ELSE {(value + 5) \div 10}

\* (a bug: one range from 1.80 to 2.30 for every draw)
generate_odds_one_range ==
    UNION {Round2(uniform(1800, 2300, u)) : r \in RandomDraws, u \in RandomDraws}

\* the values generate_odds() can return, in hundredths, over all random outcomes
generate_odds ==
    UNION {Round2(IF r < 20 THEN uniform(2200, 2300, u) ELSE uniform(1800, 2150, u)) :
               r \in RandomDraws, u \in RandomDraws}

\* the offsets, in minutes, human_like_time can add, over all random outcomes
human_like_offsets ==
    UNION {IF r < 60 THEN {0, 0, 1, 2, 3} ELSE IF r < 90 THEN 4..10 ELSE 5..20 :
               r \in RandomDraws}

\* the values human_like_time(t) can return
human_like_time(t) == {t + 60 * offset : offset \in human_like_offsets}

\* dt.strftime("%-I:%M %p"): hour on the 12-hour clock, minute, AM or PM
format_time_for_signal(t) ==
    <<IF Hour(t) % 12 = 0 THEN 12 ELSE Hour(t) % 12,
      (t \div 60) % 60,
      IF Hour(t) < 12 THEN "AM" ELSE "PM">>

\* the fields of the signal message; the odds as the digits of `{odds:.2f}`
build_signal_message(signal_type, odds, t) ==
    [signal_type |-> signal_type,
     odds |-> <<odds \div 100, (odds \div 10) % 10, odds % 10>>,
     time |-> format_time_for_signal(t)]

\* no signal message built
NoMessage == [signal_type |-> "", odds |-> <<>>, time |-> <<>>]

Put(d, k, v) == [x \in DOMAIN d \cup {k} |-> IF x = k THEN v ELSE d[x]]

\* (a bug: an entry exactly at the cutoff is kept)
SelectFrom(lst, cutoff) == SelectSeq(lst, LAMBDA ts : ts >= cutoff)

SelectAfter(lst, cutoff) == SelectSeq(lst, LAMBDA ts : ts > cutoff)

\* (a bug: the list pruned and counted before the new timestamp is appended)
RegisteredTimestampsBeforeAppend(chat_id, t) ==
    LET lst == IF chat_id \in DOMAIN chat_signal_timestamps
               THEN chat_signal_timestamps[chat_id] ELSE <<>>
    IN  SelectAfter(lst, t - CHAT_SIGNAL_WINDOW_SEC)

\* chat_signal_timestamps after register_chat_signal(chat_id, t)
RegisteredTimestamps(chat_id, t) ==
    LET lst == IF chat_id \in DOMAIN chat_signal_timestamps
               THEN chat_signal_timestamps[chat_id] ELSE <<>>
    IN  SelectAfter(Append(lst, t), t - CHAT_SIGNAL_WINDOW_SEC)

\* (a bug: the chat throttled as soon as the limit is reached, not exceeded)
register_chat_signal_at_limit(chat_id, t) ==
    /\ chat_signal_timestamps' =
           Put(chat_signal_timestamps, chat_id, RegisteredTimestamps(chat_id, t))
    /\ chat_throttle_until' =
           IF Len(RegisteredTimestamps(chat_id, t)) >= CHAT_SIGNAL_LIMIT
           THEN Put(chat_throttle_until, chat_id, t + CHAT_THROTTLE_DURATION)
           ELSE chat_throttle_until

register_chat_signal(chat_id, t) ==
    /\ chat_signal_timestamps' =
           Put(chat_signal_timestamps, chat_id, RegisteredTimestamps(chat_id, t))
    /\ chat_throttle_until' =
           IF Len(RegisteredTimestamps(chat_id, t)) > CHAT_SIGNAL_LIMIT
           THEN Put(chat_throttle_until, chat_id, t + CHAT_THROTTLE_DURATION)
           ELSE chat_throttle_until

(***************************************************************************)
(* main()                                                                  *)
(***************************************************************************)
\* (a bug: only an unset variable is refused, an empty one is not)
TokenUnset == token = <<>>

\* `not token`
TokenMissing == token = <<>> \/ token[1] = ""

\* token = os.environ.get(...); if not token: raise RuntimeError
MainCheckToken ==
    /\ pc_main = "check_token"
    /\ pc_main' = IF TokenMissing THEN "raised" ELSE "build"
    /\ UNCHANGED <<token, handlers, now, ticks, botState, processing, grants, trigger_log>>

\* app = ApplicationBuilder().token(token).build()
MainBuild ==
    /\ pc_main = "build"
    /\ pc_main' = "add_start"
    /\ UNCHANGED <<token, handlers, now, ticks, botState, processing, grants, trigger_log>>

\* app.add_handler(CommandHandler("start", start_handler))
MainAddStart ==
    /\ pc_main = "add_start"
    /\ handlers' = Append(handlers, "start")
    /\ pc_main' = "add_signal"
    /\ UNCHANGED <<token, now, ticks, botState, processing, grants, trigger_log>>

\* app.add_handler(MessageHandler(signal_filter, text_handler))
MainAddSignal ==
    /\ pc_main = "add_signal"
    /\ handlers' = Append(handlers, "signal")
    /\ pc_main' = "run_polling"
    /\ UNCHANGED <<token, now, ticks, botState, processing, grants, trigger_log>>

\* app.run_polling(poll_interval=3.0)
MainRunPolling ==
    /\ pc_main = "run_polling"
    /\ pc_main' = "polling"
    /\ UNCHANGED <<token, handlers, now, ticks, botState, processing, grants, trigger_log>>

Main == MainCheckToken \/ MainBuild \/ MainAddStart \/ MainAddSignal \/ MainRunPolling

(***************************************************************************)
(* Processing of one update and the handlers.                              *)
(***************************************************************************)
\* (a bug: the application built with concurrent_updates, two updates at a time)
CanDispatchConcurrent == Len(processing) < 2

\* The application is built at main() line 198 without concurrent_updates and
\* its handlers are blocking: an update is taken only when none is in progress.
CanDispatch == processing = <<>>

HandlerMatches(h, text) ==
    IF h = "start" THEN IsStartCommand(text) ELSE signal_filter(text)

\* the first registered handler whose check accepts the update ("none" if none)
MatchingHandler(text) ==
    IF \E i \in 1..Len(handlers) : HandlerMatches(handlers[i], text)
    THEN handlers[CHOOSE i \in 1..Len(handlers) :
                     /\ HandlerMatches(handlers[i], text)
                     /\ \A j \in 1..(i - 1) : ~HandlerMatches(handlers[j], text)]
    ELSE "none"

\* (a bug: the cooldown checked before the window)
TextHandlerOutcomeCooldownFirst(user_id, chat_id, text, is_bot, edited, t) ==
    IF edited \/ text = <<>> THEN "no_text"
    ELSE IF is_bot THEN "from_bot"
    ELSE IF ~Contains(Lower(text), Keyword) THEN "no_keyword"
    ELSE IF is_chat_throttled(chat_id, t) THEN "throttled"
    ELSE IF on_cooldown(user_id, t) THEN "cooldown"
    ELSE IF ~in_signal_window(t) THEN "window"
    ELSE "signal"

\* text_handler, lines 143-174: the branch taken
TextHandlerOutcome(user_id, chat_id, text, is_bot, edited, t) ==
    IF edited \/ text = <<>> THEN "no_text"
    ELSE IF is_bot THEN "from_bot"
    ELSE IF ~Contains(Lower(text), Keyword) THEN "no_keyword"
    ELSE IF is_chat_throttled(chat_id, t) THEN "throttled"
    ELSE IF ~in_signal_window(t) THEN "window"
    ELSE IF on_cooldown(user_id, t) THEN "cooldown"
    ELSE "signal"

\* start_handler: update.message is None for an edited message
StartHandlerOutcome(edited) == IF edited THEN "error" ELSE "start"

\* the branch the matching handler takes for an update read at time t
Outcome(user_id, chat_id, text, is_bot, edited, t) ==
    LET h == MatchingHandler(text)
    IN  CASE h = "start"  -> StartHandlerOutcome(edited)
          [] h = "signal" -> TextHandlerOutcome(user_id, chat_id, text, is_bot, edited, t)
          [] OTHER        -> "unhandled"

\* the branches that end in `await ...reply_text(...)`
Replying == {"start", "window", "cooldown", "signal"}

\* the branches of text_handler a trigger message of a human user can take
Decided == {"throttled", "window", "cooldown", "signal"}

\* (a bug: the last use and the chat activity registered after the cooldown reply too)
RecordsAnyReply(p) == p.outcome \in {"signal", "cooldown"}

\* the branch after whose reply lines 186-187 run
Records(p) == p.outcome = "signal"

\* An update is taken from the queue and its handler runs up to its first
\* await, or to its return; odds and signal_time are what generate_odds() and
\* human_like_time(now) return if the handler gets to call them.
Handle(user_id, chat_id, text, is_bot, edited, odds, signal_time) ==
    /\ pc_main = "polling"
    /\ CanDispatch
    /\ odds \in generate_odds
    /\ signal_time \in human_like_time(now)
    /\ \E outcome \in {Outcome(user_id, chat_id, text, is_bot, edited, now)} :
       \E type \in IF outcome = "signal" THEN SignalTypeChoices(chat_id) ELSE {""} :
             /\ processing' = Append(processing,
                    [user |-> user_id, chat |-> chat_id, now |-> now, text |-> text,
                     is_bot |-> is_bot, edited |-> edited, handler |-> MatchingHandler(text),
                     outcome |-> outcome, signal_type |-> type,
                     signal_time |-> IF outcome = "signal" THEN signal_time ELSE 0,
                     reply |-> IF outcome = "signal"
                               THEN build_signal_message(type, odds, signal_time)
                               ELSE NoMessage])
             /\ last_signal_type_by_chat' =
                    IF outcome = "signal"
                    THEN Put(last_signal_type_by_chat, chat_id, type)
                    ELSE last_signal_type_by_chat
    /\ UNCHANGED <<token, pc_main, handlers, now, ticks, last_signal_by_user,
                   chat_signal_timestamps, chat_throttle_until, grants>>

\* the same with every random outcome of the odds and of the signal time
DispatchAny(user_id, chat_id, text, is_bot, edited) ==
    \E odds \in generate_odds, signal_time \in human_like_time(now) :
        Handle(user_id, chat_id, text, is_bot, edited, odds, signal_time)
            /\ UNCHANGED trigger_log

\* the same with one outcome of the odds and of the signal time, which touch
\* nothing but the text of the reply
OneOdds == CHOOSE odds \in generate_odds : TRUE
OneOffset == CHOOSE offset \in human_like_offsets : TRUE

Dispatch(user_id, chat_id, text, is_bot, edited) ==
    Handle(user_id, chat_id, text, is_bot, edited, OneOdds, now + 60 * OneOffset)
        /\ UNCHANGED trigger_log

RemoveAt(seq, i) == SubSeq(seq, 1, i - 1) \o SubSeq(seq, i + 1, Len(seq))

\* The handler returns: at once, or when `await msg.reply_text(...)` returns;
\* after the signal reply it registers the last use and the chat activity.
HandlerReturns ==
    \E i \in 1..Len(processing) :
        LET p == processing[i]
        IN  /\ processing' = RemoveAt(processing, i)
            /\ IF Records(p)
               THEN /\ last_signal_by_user' = Put(last_signal_by_user, p.user, p.now)
                    /\ register_chat_signal(p.chat, p.now)
                    /\ grants' = grants \cup {[user |-> p.user, chat |-> p.chat, time |-> p.now]}
                    /\ UNCHANGED last_signal_type_by_chat
               ELSE UNCHANGED <<botState, grants>>
            /\ UNCHANGED <<token, pc_main, handlers, now, ticks, trigger_log>>

\* (a bug: the last use and the chat activity registered before the signal
\* reply is awaited, so that they stay when it raises)
ReplyRaisesRecorded ==
    \E i \in 1..Len(processing) :
        LET p == processing[i]
        IN  /\ p.outcome \in Replying
            /\ processing' = RemoveAt(processing, i)
            /\ IF Records(p)
               THEN /\ last_signal_by_user' = Put(last_signal_by_user, p.user, p.now)
                    /\ register_chat_signal(p.chat, p.now)
                    /\ UNCHANGED last_signal_type_by_chat
               ELSE UNCHANGED botState
            /\ UNCHANGED <<token, pc_main, handlers, now, ticks, grants, trigger_log>>

\* `await msg.reply_text(...)` raises: the handler ends there
ReplyRaises ==
    \E i \in 1..Len(processing) :
        /\ processing[i].outcome \in Replying
        /\ processing' = RemoveAt(processing, i)
        /\ UNCHANGED <<token, pc_main, handlers, now, ticks, botState, grants, trigger_log>>

\* the wall clock advances
Tick(d, maxTicks) ==
    /\ ticks < maxTicks
    /\ now' = now + d
    /\ ticks' = ticks + 1
    /\ UNCHANGED <<token, pc_main, handlers, botState, processing, grants, trigger_log>>

InitWith(tokens, starts) ==
    /\ token \in tokens
    /\ pc_main = "check_token"
    /\ handlers = <<>>
    /\ now \in starts
    /\ ticks = 0
    /\ last_signal_by_user = <<>>
    /\ last_signal_type_by_chat = <<>>
    /\ chat_signal_timestamps = <<>>
    /\ chat_throttle_until = <<>>
    /\ processing = <<>>
    /\ grants = {}
    /\ trigger_log = <<>>

(***************************************************************************)
(* Specifications.  User and chat ids are only ever compared for equality, *)
(* so the ids not yet recorded are interchangeable: one stands for all.    *)
(***************************************************************************)
Senders  == {u \in Users : u <= Cardinality(DOMAIN last_signal_by_user) + 1}
ChatsNow == {c \in Chats : c <= Cardinality(DOMAIN last_signal_type_by_chat) + 1}

Init == InitWith(Tokens, StartTimes)

\* trigger messages of human users
Receive == \E u \in Senders, c \in ChatsNow : Dispatch(u, c, T_signal, FALSE, FALSE)

Advance == \E d \in Deltas : Tick(d, MaxTicks)

Next == Main \/ Receive \/ HandlerReturns \/ ReplyRaises \/ Advance

Spec == Init /\ [][Next]_vars

\* Every kind of update, one user and one chat.
InitText == InitWith(Tokens, TextStartTimes)

ReceiveText == \E text \in Texts, b \in BOOLEAN, e \in BOOLEAN : Dispatch(1, 1, text, b, e)

AdvanceText == \E d \in TextDeltas : Tick(d, TextTicks)

NextText == Main \/ ReceiveText \/ HandlerReturns \/ ReplyRaises \/ AdvanceText

SpecText == InitText /\ [][NextText]_vars

\* A burst in one chat: many users, short clock advances; the sender is the
\* user granted last or the next new one.
BurstSenders ==
    LET k == Cardinality(DOMAIN last_signal_by_user)
    IN  {u \in 1..BurstUsers : k <= u /\ u <= k + 1}

InitBurst == InitWith({<<"123:ABC">>}, BurstStartTimes)

ReceiveBurst == \E u \in BurstSenders, c \in BurstChats : Dispatch(u, c, T_signal, FALSE, FALSE)

AdvanceBurst == \E d \in BurstDeltas : Tick(d, BurstTicks)

NextBurst == Main \/ ReceiveBurst \/ HandlerReturns \/ ReplyRaises \/ AdvanceBurst

SpecBurst == InitBurst /\ [][NextBurst]_vars

\* Repeated requests in one chat, every reply delivered, with the trigger
\* messages of the last CHAT_SIGNAL_WINDOW_SEC seconds logged per chat.
\* (no more than CHAT_SIGNAL_LIMIT + 1 of them are kept)
LogTrigger(p) ==
    LET old    == IF p.chat \in DOMAIN trigger_log THEN trigger_log[p.chat] ELSE <<>>
        recent == SelectSeq(Append(old, p.now),
                            LAMBDA ts : ts > p.now - CHAT_SIGNAL_WINDOW_SEC)
    IN  Put(trigger_log, p.chat,
            IF Len(recent) > CHAT_SIGNAL_LIMIT + 1 THEN Tail(recent) ELSE recent)

DispatchLogged(user_id, chat_id, text, is_bot, edited) ==
    /\ Handle(user_id, chat_id, text, is_bot, edited, OneOdds, now + 60 * OneOffset)
    /\ trigger_log' = IF processing'[Len(processing')].outcome \in Decided
                      THEN LogTrigger(processing'[Len(processing')])
                      ELSE trigger_log

InitSpam == InitWith({<<"123:ABC">>}, SpamStartTimes)

ReceiveSpam == \E u \in Senders : DispatchLogged(u, 1, T_signal, FALSE, FALSE)

AdvanceSpam == \E d \in SpamDeltas : Tick(d, SpamTicks)

NextSpam == Main \/ ReceiveSpam \/ HandlerReturns \/ AdvanceSpam

SpecSpam == InitSpam /\ [][NextSpam]_vars

\* A burst in chat 1 while chat 2 is in use too; requests arrive in chat 2
\* as long as fewer than OtherChatSignals signals have been granted there.
InitChats == InitWith({<<"123:ABC">>}, ChatsStartTimes)

ReceiveChats ==
    \E u \in BurstSenders, c \in Chats :
        /\ c # 1 => Cardinality({g \in grants : g.chat = c}) < OtherChatSignals
        /\ Dispatch(u, c, T_signal, FALSE, FALSE)

AdvanceChats == \E d \in ChatsDeltas : Tick(d, ChatsTicks)

NextChats == Main \/ ReceiveChats \/ HandlerReturns \/ ReplyRaises \/ AdvanceChats

SpecChats == InitChats /\ [][NextChats]_vars

\* The content of the signal replies: one user, one chat, every random outcome.
InitContent == InitWith({<<"123:ABC">>}, ContentStartTimes)

ReceiveContent == DispatchAny(1, 1, T_signal, FALSE, FALSE)

AdvanceContent == \E d \in ContentDeltas : Tick(d, ContentTicks)

NextContent == Main \/ ReceiveContent \/ HandlerReturns \/ ReplyRaises \/ AdvanceContent

SpecContent == InitContent /\ [][NextContent]_vars

(***************************************************************************)
(* What the claims speak of, read off the history.                         *)
(***************************************************************************)
Range(f) == {f[x] : x \in DOMAIN f}

\* the updates in progress that text_handler took as signal requests
Requests == {p \in Range(processing) : p.handler = "signal" /\ p.outcome \in Decided}

\* the user of p was granted a signal less than 5 minutes before p
RecentlyGranted(p) ==
    \E g \in grants : g.user = p.user /\ g.time <= p.now /\ p.now < g.time + 300

\* the local hour of t is in 6..17
InsideHours(t) == ((t \div 3600) % 24) \in 6..17

\* the times at which chat c became throttled: a signal was granted in c and
\* more than 6 signals had been granted in c in the 30 seconds ending there
ThrottleTimes(c) ==
    {g.time : g \in {g \in grants :
        /\ g.chat = c
        /\ Cardinality({h \in grants : h.chat = c /\ h.time > g.time - 30
                                       /\ h.time <= g.time}) > 6}}

\* chat c became throttled less than 60 seconds before t
ThrottledAt(c, t) == \E tt \in ThrottleTimes(c) : tt <= t /\ t < tt + 60

(***************************************************************************)
(* C1: per-user cooldown.                                                  *)
(***************************************************************************)
\* any two signals granted to one user are at least 5 minutes apart
GrantsApart ==
    \A g1, g2 \in grants :
        (g1.user = g2.user /\ g1 # g2) =>
            (g1.time >= g2.time + 300 \/ g2.time >= g1.time + 300)

\* C1 as stated: any two signals granted to one user are at least 5 minutes
\* apart; a request handled less than 5 minutes after the user's last granted
\* signal gets the cooldown message; one handled exactly 5 minutes after is
\* granted.
C1_AsStated ==
    /\ GrantsApart
    /\ \A p \in Requests :
        /\ RecentlyGranted(p) => p.outcome = "cooldown"
        /\ (~RecentlyGranted(p) /\ \E g \in grants : g.user = p.user /\ p.now = g.time + 300)
               => p.outcome = "signal"

\* C1 (amended): any two signals granted to one user, in any chats, are at
\* least 5 minutes apart; a request handled less than 5 minutes after the
\* user's last granted signal never gets a signal, and gets the cooldown
\* message exactly when the chat is not throttled and the hour is inside the
\* window; a request that is not within 5 minutes of a grant to its user
\* (exactly 5 minutes after included) is granted when the chat is not
\* throttled and the hour is inside the window.
C1_Cooldown ==
    /\ GrantsApart
    /\ \A p \in Requests :
        /\ RecentlyGranted(p) =>
              /\ p.outcome # "signal"
              /\ p.outcome = "cooldown" <=>
                     (~ThrottledAt(p.chat, p.now) /\ InsideHours(p.now))
        /\ (~RecentlyGranted(p) /\ ~ThrottledAt(p.chat, p.now) /\ InsideHours(p.now))
               => p.outcome = "signal"

\* a user is granted a signal exactly 5 minutes after a grant in another chat
C1_Witness ==
    \E p \in Requests : \E g \in grants :
        /\ g.user = p.user /\ g.chat # p.chat
        /\ p.now = g.time + 300
        /\ p.outcome = "signal"

(***************************************************************************)
(* C2: time-of-day window.                                                 *)
(***************************************************************************)
\* C2: a signal is sent only when the local hour at handling time is in
\* 6..17, and every request handled in a non-throttled chat outside those
\* hours gets the window-closed message, whatever the user's cooldown state.
C2_Window ==
    \A p \in Requests :
        /\ p.outcome = "signal" => InsideHours(p.now)
        /\ (~ThrottledAt(p.chat, p.now) /\ ~InsideHours(p.now)) => p.outcome = "window"

\* a user on cooldown asks at 18:00:00 and gets the window-closed message
C2_Witness ==
    \E p \in Requests :
        /\ p.outcome = "window"
        /\ RecentlyGranted(p)
        /\ p.now = 64800

(***************************************************************************)
(* C3: what the throttle counts.                                           *)
(***************************************************************************)
\* C3: whenever more than 6 signal-triggering messages are received in one
\* chat within 30 seconds, whatever they were answered with, the chat is
\* throttled until 60 seconds after the last of them.
C3_AsStated ==
    \A c \in DOMAIN trigger_log :
        (processing = <<>> /\ Len(trigger_log[c]) > 6) =>
            /\ c \in DOMAIN chat_throttle_until
            /\ chat_throttle_until[c] = trigger_log[c][Len(trigger_log[c])] + 60

(***************************************************************************)
(* C4: a throttled chat is ignored for 60 seconds.                         *)
(***************************************************************************)
\* C4: a request handled in a chat less than 60 seconds after the chat became
\* throttled gets no reply of any kind; one handled 60 seconds after or later
\* is evaluated again.
C4_Throttled ==
    \A p \in Requests :
        /\ ThrottledAt(p.chat, p.now) => (p.outcome = "throttled" /\ p.outcome \notin Replying)
        /\ ~ThrottledAt(p.chat, p.now) => p.outcome \in {"window", "cooldown", "signal"}

\* a request is ignored 59 seconds after its chat became throttled
C4_Witness ==
    \E p \in Requests :
        /\ p.outcome = "throttled"
        /\ \E tt \in ThrottleTimes(p.chat) : p.now = tt + 59

(***************************************************************************)
(* C5: trigger detection.                                                  *)
(***************************************************************************)
\* C5: a text message of a human user is processed as a signal request by
\* text_handler exactly when its text contains "signal", case-insensitively,
\* anywhere; the dispatch filter and the substring test accept the same texts.
C5_AsStated ==
    \A p \in Range(processing) :
        (~p.edited /\ p.text # <<>> /\ ~p.is_bot) =>
            /\ Contains(Lower(p.text), Keyword)
                   <=> (p.handler = "signal" /\ p.outcome \in Decided)
            /\ Contains(Lower(p.text), Keyword) <=> signal_filter(p.text)

(***************************************************************************)
(* C6: a missing credential is fatal at startup.                           *)
(***************************************************************************)
\* C6: with BOT_TOKEN unset or empty main raises before the application is
\* built, registers no handler, never polls, and no update is ever handled;
\* with it set and non-empty main never raises, can always take its next
\* step, and polls with the /start and the signal handler registered.
C6_Startup ==
    LET missing == token = <<>> \/ token = <<"">>
    IN  /\ missing =>
              /\ pc_main \in {"check_token", "raised"}
              /\ handlers = <<>>
              /\ processing = <<>> /\ grants = {}
        /\ ~missing =>
              /\ pc_main # "raised"
              /\ pc_main # "polling" => ENABLED Main
              /\ pc_main = "polling" => handlers = <<"start", "signal">>
        /\ processing # <<>> => pc_main = "polling"

\* main has raised on an empty BOT_TOKEN
C6_Witness == pc_main = "raised" /\ token = <<"">>

(***************************************************************************)
(* C7: pruning.                                                            *)
(***************************************************************************)
\* C7 as stated: once a message read at time t has been handled, no map
\* retains an entry that expired before t.
C7_AsStated ==
    [][(Len(processing) = 1 /\ processing' = <<>>) =>
          LET t == processing[1].now
          IN  /\ \A u \in DOMAIN last_signal_by_user' : last_signal_by_user'[u] + 300 >= t
              /\ \A c \in DOMAIN chat_signal_timestamps' :
                     \A ts \in Range(chat_signal_timestamps'[c]) : ts + 30 >= t
              /\ \A c \in DOMAIN chat_throttle_until' : chat_throttle_until'[c] >= t
      ]_vars

\* C7 (amended): only the per-chat list of recent timestamps is pruned, and
\* only when a signal is granted in that chat: the list of chat c changes only
\* when a handler that read time t returns from its signal reply in c, and
\* then holds t and the earlier entries later than t - 30 s, and no others;
\* no key is ever removed from any of the three maps.
C7_Pruning ==
    [][/\ DOMAIN last_signal_by_user \subseteq DOMAIN last_signal_by_user'
       /\ DOMAIN chat_throttle_until \subseteq DOMAIN chat_throttle_until'
       /\ DOMAIN chat_signal_timestamps \subseteq DOMAIN chat_signal_timestamps'
       /\ \A c \in DOMAIN chat_signal_timestamps' :
            LET old == IF c \in DOMAIN chat_signal_timestamps
                       THEN chat_signal_timestamps[c] ELSE <<>>
                new == chat_signal_timestamps'[c]
            IN  (c \notin DOMAIN chat_signal_timestamps \/ new # old) =>
                   \E i \in 1..Len(processing) :
                       /\ processing[i].outcome = "signal" /\ processing[i].chat = c
                       /\ Len(processing') < Len(processing)
                       /\ Range(new) = {ts \in Range(old) \cup {processing[i].now} :
                                            ts > processing[i].now - 30}
                       /\ new[Len(new)] = processing[i].now
      ]_vars

\* a granted signal's timestamp has been pruned from its chat's list
C7_Witness ==
    \E g \in grants :
        /\ g.chat \in DOMAIN chat_signal_timestamps
        /\ g.time \notin Range(chat_signal_timestamps[g.chat])

(***************************************************************************)
(* C8: one update at a time.                                               *)
(***************************************************************************)
\* C8: at most one update is in progress at any time, so two requests of one
\* user never both stand between the cooldown check and the recording.
C8_OneAtATime ==
    /\ Len(processing) <= 1
    /\ \A i, j \in 1..Len(processing) :
           (i # j /\ processing[i].user = processing[j].user) =>
               ~(processing[i].outcome = "signal" /\ processing[j].outcome = "signal")

\* a handler is suspended at its signal reply, its user not yet recorded,
\* while the clock has moved on
C8_Witness ==
    /\ Len(processing) = 1
    /\ processing[1].outcome = "signal"
    /\ processing[1].user \notin DOMAIN last_signal_by_user
    /\ now > processing[1].now

(***************************************************************************)
(* C9: order of the checks.                                                *)
(***************************************************************************)
\* C9: a request gets exactly one outcome: no reply if the chat is throttled;
\* else the window-closed message if the hour is outside 6..17; else the
\* cooldown message if the user was granted a signal less than 5 minutes
\* before; else a signal.
C9_Priority ==
    \A p \in Requests :
        p.outcome = IF ThrottledAt(p.chat, p.now) THEN "throttled"
                    ELSE IF ~InsideHours(p.now) THEN "window"
                    ELSE IF RecentlyGranted(p) THEN "cooldown"
                    ELSE "signal"

\* a request in a throttled chat, outside the window, of a user on cooldown
C9_Witness ==
    \E p \in Requests :
        /\ ThrottledAt(p.chat, p.now) /\ ~InsideHours(p.now) /\ RecentlyGranted(p)
        /\ p.outcome = "throttled"

(***************************************************************************)
(* C10: rejected requests change no state.                                 *)
(***************************************************************************)
Rejected(p) == p.handler = "signal" /\ p.outcome \in {"throttled", "window", "cooldown"}

\* C10: neither the start nor the end of the handling of a request that is
\* ignored as throttled, or answered with the window-closed or the cooldown
\* message, changes any of the four maps.
C10_RejectedFrame ==
    [][(\/ /\ Len(processing') > Len(processing)
           /\ Rejected(processing'[Len(processing')])
        \/ \E i \in 1..Len(processing) :
               /\ processing' = RemoveAt(processing, i)
               /\ Rejected(processing[i]))
       => botState' = botState
      ]_vars

\* a request of a user on cooldown is being ignored in a throttled chat
C10_Witness ==
    \E p \in Requests :
        /\ p.outcome = "throttled"
        /\ RecentlyGranted(p)
        /\ p.chat \in DOMAIN chat_throttle_until /\ chat_throttle_until[p.chat] > p.now

(***************************************************************************)
(* C11: the exact throttle condition.                                      *)
(***************************************************************************)
\* the signals granted in chat c, among gs, later than t - 30 s
GrantedInWindow(gs, c, t) == {g \in gs : g.chat = c /\ g.time > t - 30}

\* C11: when a handler that read time t returns from its signal reply in chat
\* c, the chat's throttle end is set to t + 60 s if and only if more than 6
\* signals, this one included, were granted in c later than t - 30 s (one
\* exactly 30 s old is not counted); otherwise the throttle map is unchanged;
\* that handler has sent its signal reply and was not itself throttled, and
\* no other step changes the throttle map.
C11_ThrottleCondition ==
    [][/\ \A i \in 1..Len(processing) :
             (processing' = RemoveAt(processing, i) /\ grants' # grants) =>
                 LET p == processing[i]
                 IN  /\ p.outcome = "signal"
                     /\ ~ThrottledAt(p.chat, p.now)
                     /\ grants' = grants \cup {[user |-> p.user, chat |-> p.chat, time |-> p.now]}
                     /\ chat_throttle_until' =
                            IF Cardinality(GrantedInWindow(grants', p.chat, p.now)) > 6
                            THEN [c \in DOMAIN chat_throttle_until \cup {p.chat} |->
                                     IF c = p.chat THEN p.now + 60 ELSE chat_throttle_until[c]]
                            ELSE chat_throttle_until
       /\ grants' = grants => chat_throttle_until' = chat_throttle_until
      ]_vars

\* a chat is throttled by a 7th signal, the oldest one counted 29 s before it
C11_Witness ==
    \E c \in DOMAIN chat_throttle_until : \E g \in grants :
        /\ g.chat = c
        /\ Cardinality(GrantedInWindow(grants, c, g.time + 29)) > 6
        /\ chat_throttle_until[c] = g.time + 29 + 60

(***************************************************************************)
(* C12: the burst bound.                                                   *)
(***************************************************************************)
\* the signal replies sent or being sent in chat c, as <<user, handling time>>
SignalsSent(c) ==
    {<<g.user, g.time>> : g \in {g \in grants : g.chat = c}}
        \cup {<<p.user, p.now>> : p \in {p \in Requests : p.chat = c /\ p.outcome = "signal"}}

\* the times of the grants in chat c that were the 7th (or a later one) of the
\* signals granted in c in an interval shorter than 30 s ending there
SeventhTimes(c) ==
    {g.time : g \in {g \in grants :
        /\ g.chat = c
        /\ Cardinality({h \in grants : h.chat = c /\ g.time - 30 < h.time
                                       /\ h.time <= g.time}) >= 7}}

\* C12: in every chat and every interval shorter than 30 s at most 7 signal
\* replies are sent, and once 7 signals have been granted in such an interval
\* no further signal is sent in that chat earlier than 60 s after the 7th.
C12_BurstBound ==
    \A c \in Chats :
        /\ \A s \in SignalsSent(c) :
               Cardinality({x \in SignalsSent(c) : s[2] <= x[2] /\ x[2] < s[2] + 30}) <= 7
        /\ \A t7 \in SeventhTimes(c) :
               /\ \A x \in SignalsSent(c) : ~(t7 < x[2] /\ x[2] < t7 + 60)
               /\ \A p \in Requests :
                      (p.chat = c /\ t7 <= p.now /\ p.now < t7 + 60) => p.outcome # "signal"

\* 7 signals were granted in a chat within 30 s and a request of a user who is
\* not on cooldown is ignored there less than 60 s after the 7th
C12_Witness ==
    \E p \in Requests :
        /\ p.outcome = "throttled"
        /\ ~RecentlyGranted(p)
        /\ \E t7 \in SeventhTimes(p.chat) : t7 <= p.now /\ p.now < t7 + 60

(***************************************************************************)
(* C13: chats are isolated, the cooldown is not.                           *)
(***************************************************************************)
\* d.get(k): the entry of k in d as a set, empty when k is absent
Entry(d, k) == IF k \in DOMAIN d THEN {d[k]} ELSE {}

\* a request is ignored as throttled exactly when its own chat became
\* throttled less than 60 s before, and a request of a user granted a signal
\* less than 5 minutes before, in whatever chat, gets no signal
OwnChatOnly ==
    \A p \in Requests :
        /\ p.outcome = "throttled" <=> ThrottledAt(p.chat, p.now)
        /\ RecentlyGranted(p) => p.outcome # "signal"

\* a handler returns from its signal reply in chat c: a signal is granted in c
GrantedStep(c) ==
    \E i \in 1..Len(processing) :
        /\ processing[i].chat = c /\ processing[i].outcome = "signal"
        /\ processing' = RemoveAt(processing, i)
        /\ grants' # grants

\* every chat with a last signal type has had a signal granted, or has one
\* being sent
TypeOnlyOfGranted ==
    \A c \in DOMAIN last_signal_type_by_chat :
        \/ \E g \in grants : g.chat = c
        \/ \E p \in Requests : p.chat = c /\ p.outcome = "signal"

\* C13 as stated: the timestamp list, the throttle end and the last signal
\* type of chat c change only when a signal is granted in c; throttling one
\* chat suppresses no reply in another; a signal granted to a user in one chat
\* puts the user on cooldown in every chat.
C13_AsStated ==
    [][/\ \A c \in Chats :
            (\/ Entry(chat_signal_timestamps', c) # Entry(chat_signal_timestamps, c)
             \/ Entry(chat_throttle_until', c) # Entry(chat_throttle_until, c))
                => GrantedStep(c)
       /\ TypeOnlyOfGranted'
       /\ OwnChatOnly'
      ]_vars

\* C13 (amended): the timestamp list and the throttle end of chat c change
\* only when a handler returns from its signal reply in c, and the last signal
\* type of c only when a request in c is taken as a signal, before its reply
\* is sent and whether or not the send succeeds; a request is ignored as
\* throttled exactly when its own chat became throttled less than 60 s
\* before, whatever the state of the other chats; and a request of a user
\* granted a signal less than 5 minutes before, in whatever chat, gets none.
C13_Isolation ==
    [][/\ \A c \in Chats :
            /\ (\/ Entry(chat_signal_timestamps', c) # Entry(chat_signal_timestamps, c)
                \/ Entry(chat_throttle_until', c) # Entry(chat_throttle_until, c)) =>
                   GrantedStep(c)
            /\ Entry(last_signal_type_by_chat', c) # Entry(last_signal_type_by_chat, c) =>
                   /\ Len(processing') = Len(processing) + 1
                   /\ processing'[Len(processing')].chat = c
                   /\ processing'[Len(processing')].outcome = "signal"
       /\ OwnChatOnly'
      ]_vars

\* while chat 1 is throttled, a user granted a signal there asks in chat 2 and
\* gets the cooldown message
C13_Witness ==
    \E p \in Requests :
        /\ p.chat = 2 /\ p.outcome = "cooldown"
        /\ ThrottledAt(1, p.now)
        /\ \A g \in grants : g.user = p.user => g.chat = 1

(***************************************************************************)
(* C14: recording happens only after a successful send.                    *)
(***************************************************************************)
\* C14: when a request is taken as a signal, only the last signal type of its
\* chat changes before the reply is sent; when the signal reply then raises,
\* last_signal_by_user, chat_signal_timestamps and chat_throttle_until are
\* left as they were, the user is not on cooldown, and the last signal type
\* of the chat stays the type of the signal that was not delivered.
C14_RecordAfterSend ==
    [][/\ (/\ Len(processing') = Len(processing) + 1
           /\ processing'[Len(processing')].outcome = "signal") =>
              LET p == processing'[Len(processing')]
              IN  /\ last_signal_by_user' = last_signal_by_user
                  /\ chat_signal_timestamps' = chat_signal_timestamps
                  /\ chat_throttle_until' = chat_throttle_until
                  /\ last_signal_type_by_chat' =
                         [c \in DOMAIN last_signal_type_by_chat \cup {p.chat} |->
                             IF c = p.chat THEN p.signal_type ELSE last_signal_type_by_chat[c]]
       /\ \A i \in 1..Len(processing) :
              (/\ processing' = RemoveAt(processing, i)
               /\ processing[i].outcome = "signal"
               /\ grants' = grants) =>
                  LET p == processing[i]
                  IN  /\ last_signal_by_user' = last_signal_by_user
                      /\ chat_signal_timestamps' = chat_signal_timestamps
                      /\ chat_throttle_until' = chat_throttle_until
                      /\ \/ p.user \notin DOMAIN last_signal_by_user'
                         \/ p.now >= last_signal_by_user'[p.user] + 300
                      /\ last_signal_type_by_chat' = last_signal_type_by_chat
                      /\ last_signal_type_by_chat'[p.chat] = p.signal_type
      ]_vars

\* the signal reply of the only request so far has raised: a last signal type
\* is recorded, nothing else is, and no signal was delivered
C14_Witness ==
    /\ processing = <<>> /\ grants = {}
    /\ last_signal_type_by_chat # <<>>
    /\ last_signal_by_user = <<>>
    /\ chat_signal_timestamps = <<>> /\ chat_throttle_until = <<>>

(***************************************************************************)
(* C15: the displayed signal time.                                         *)
(***************************************************************************)
\* the signal requests in progress, their message built
Signals == {p \in Requests : p.outcome = "signal"}

\* C15: the time human_like_time(now) returns is never earlier than now and
\* at most 10 minutes after it, a whole number of minutes, for every random
\* outcome.
C15_AsStated ==
    \A p \in Signals :
        /\ p.now <= p.signal_time
        /\ p.signal_time <= p.now + 10 * 60
        /\ (p.signal_time - p.now) % 60 = 0

(***************************************************************************)
(* C16: the content of a signal.                                           *)
(***************************************************************************)
\* the odds of a signal message, in hundredths, read from its digits
OddsShown(reply) == 100 * reply.odds[1] + 10 * reply.odds[2] + reply.odds[3]

\* C16: every signal message carries a type that is BUY or SELL, the one
\* chosen for the chat, and odds of three digits that, in hundredths, lie in
\* 180..215 or in 220..230, for every random outcome and whatever the last
\* signal type of the chat was.
C16_SignalContent ==
    \A p \in Signals :
        /\ p.reply.signal_type \in {"BUY", "SELL"}
        /\ p.reply.signal_type = p.signal_type
        /\ last_signal_type_by_chat[p.chat] = p.signal_type
        /\ Len(p.reply.odds) = 3
        /\ \A i \in 1..3 : p.reply.odds[i] \in 0..9
        /\ OddsShown(p.reply) \in (180..215) \cup (220..230)

\* a SELL signal with odds 2.30 in a chat where a signal was granted before
C16_Witness ==
    \E p \in Signals : \E g \in grants :
        /\ g.chat = p.chat
        /\ p.reply.odds = <<2, 3, 0>>
        /\ p.reply.signal_type = "SELL"

====
